---- MODULE Spec2Model ----
(***************************************************************************)
(* Model of src/data/analysis_script.py: analyze_employee_data (the        *)
(* aggregator over a pandas DataFrame) and generate_report (the text       *)
(* renderer of its result dictionary).                                     *)
(*                                                                         *)
(* A DataFrame is [columns |-> set of column names, rows |-> sequence of   *)
(* rows], a row being a function from the frame's columns to values.  A    *)
(* Python dict is the sequence of its items in insertion order, an item    *)
(* being [key |-> k, value |-> v].  A float is an IEEE 754 double, held as  *)
(* [nan |-> FALSE, int |-> its integer part, frac |-> the bits of its      *)
(* fraction, most significant first, no trailing zero], or NaN.  Only      *)
(* non-negative doubles below 2^31 arise.                                  *)
(* A call's outcome is [kind |-> "return", value |-> v] or                 *)
(* [kind |-> "raise", value |-> [exc |-> e, key |-> k]].                   *)
(***************************************************************************)
EXTENDS Integers, Sequences, FiniteSets, TLC

\* Largest number of rows of a Dataset the caller supplies.
MaxRows == 3

\* Largest number of rows of a Dataset in the specification of the column
\* means alone.
MaxWideRows == 7

\* The values the caller's rows are drawn from: an employee is of one of two
\* grades (an age with its salary), in one of two departments and two cities.
Grades == {[age |-> 30, salary |-> 40000], [age |-> 35, salary |-> 70001]}
DepartmentValues == {"Sales", "Eng"}
CityValues == {"NYC", "LA"}

\* The four columns the script reads.
Columns == {"age", "salary", "department", "city"}

\* The keys of the dictionary analyze_employee_data builds, in literal order.
SummaryKeys ==
    <<"total_employees", "average_age", "average_salary", "departments",
      "cities", "salary_by_dept", "age_by_dept">>

FullRows ==
    {[age |-> g.age, salary |-> g.salary, department |-> d, city |-> c] :
        g \in Grades, d \in DepartmentValues, c \in CityValues}

RowsOver(cols) == {[c \in cols |-> r[c]] : r \in FullRows}

\* Frames with all four columns, or with one or two of them absent.
ColumnSets == {cs \in SUBSET Columns : Cardinality(cs) >= 2}

Datasets ==
    UNION {{[columns |-> cs, rows |-> rs] :
              rs \in UNION {[1..n -> RowsOver(cs)] : n \in 0..MaxRows}} :
           cs \in ColumnSets}

\* Longer frames, all columns present, of employees of one city.
WideDatasets ==
    {[columns |-> Columns, rows |-> rs] :
        rs \in UNION {[1..n -> {r \in FullRows : r.city = "NYC"}] :
                        n \in 1..MaxWideRows}}

Range(s) == {s[i] : i \in DOMAIN s}

---------------------------------------------------------------------------
(* Outcomes of a call *)

NoCall == [kind |-> "none", value |-> "none"]
Return(v) == [kind |-> "return", value |-> v]
Raise(e, k) == [kind |-> "raise", value |-> [exc |-> e, key |-> k]]

SameOutcome(a, b) == a.kind = b.kind /\ a.value = b.value

---------------------------------------------------------------------------
(* Floats *)

\* Bits of the significand of a double.
Precision == 53

NaN == [nan |-> TRUE, int |-> 0, frac |-> <<>>]

\* The number of bits of n: 0 for 0.
RECURSIVE BitLen(_)
BitLen(n) == IF n = 0 THEN 0 ELSE 1 + BitLen(n \div 2)

\* The positions of the 1s of bits.
Ones(bits) == {i \in 1..Len(bits) : bits[i] = 1}

Highest(S) == CHOOSE i \in S : \A j \in S : j <= i

Lowest(S) == CHOOSE i \in S : \A j \in S : i <= j

\* bits without its trailing zeros.
Strip(bits) ==
    IF Ones(bits) = {} THEN <<>> ELSE SubSeq(bits, 1, Highest(Ones(bits)))

\* The position of the first 1 in bits, Len(bits) + 1 when there is none.
FirstOne(bits) ==
    IF Ones(bits) = {} THEN Len(bits) + 1 ELSE Lowest(Ones(bits))

\* The position of the first 1 in the binary expansion of r / d, 0 < r < d.
RECURSIVE FirstOneOf(_, _)
FirstOneOf(r, d) == IF 2 * r >= d THEN 1 ELSE 1 + FirstOneOf(2 * r, d)

\* The first k bits of the binary expansion of r / d, 0 <= r < d.
RECURSIVE FracBits(_, _, _)
FracBits(r, d, k) ==
    IF k = 0 THEN <<>>
    ELSE <<(2 * r) \div d>> \o FracBits((2 * r) % d, d, k - 1)

\* What is left of r / d after its first k bits, as a numerator over d.
RECURSIVE FracRest(_, _, _)
FracRest(r, d, k) == IF k = 0 THEN r ELSE FracRest((2 * r) % d, d, k - 1)

\* bits plus one in the last place; bits is not all ones.
Increment(bits) ==
    LET z == Highest({i \in 1..Len(bits) : bits[i] = 0})
    IN  [i \in 1..Len(bits) |->
            IF i < z THEN bits[i] ELSE IF i = z THEN 1 ELSE 0]

\* How many fraction bits a double of integer part ip keeps, its fraction
\* starting as bits when ip = 0: the significand has Precision bits.
FracPositions(ip, bits) ==
    IF ip >= 1 THEN Precision - BitLen(ip) ELSE Precision - 1 + FirstOne(bits)

\* The double nearest to ip + 0.bits (+ something below the last bit when
\* sticky), ties to even.
RoundToDouble(ip, bits, sticky) ==
    LET k == FracPositions(ip, bits)
    IN  IF Len(bits) <= k THEN [nan |-> FALSE, int |-> ip, frac |-> Strip(bits)]
        ELSE LET kept == SubSeq(bits, 1, k)
                 more == sticky \/ \E i \in (k + 2)..Len(bits) : bits[i] = 1
                 odd == IF k = 0 THEN ip % 2 = 1 ELSE kept[k] = 1
                 up == bits[k + 1] = 1 /\ (more \/ odd)
             IN  IF ~up THEN [nan |-> FALSE, int |-> ip, frac |-> Strip(kept)]
                 ELSE IF \A i \in 1..k : kept[i] = 1
                 THEN [nan |-> FALSE, int |-> ip + 1, frac |-> <<>>]
                 ELSE [nan |-> FALSE, int |-> ip,
                       frac |-> Strip(Increment(kept))]

\* The double n / d of two non-negative integers held exactly, d > 0: the
\* quotient correctly rounded.
Quotient(n, d) ==
    LET ip == n \div d
        r == n % d
        k == IF ip >= 1 THEN Precision - BitLen(ip)
             ELSE IF r = 0 THEN 0
             ELSE Precision - 1 + FirstOneOf(r, d)
    IN  RoundToDouble(ip, FracBits(r, d, k + 1), FracRest(r, d, k + 1) # 0)

\* n times the fraction 0.bits, exactly: the integer part, then the bits of
\* the fraction.
MulBits(bits, n) ==
    LET carry[i \in 0..Len(bits)] ==
            IF i = Len(bits) THEN 0
            ELSE (n * bits[i + 1] + carry[i + 1]) \div 2
    IN  <<carry[0]>> \o
        [i \in 1..Len(bits) |-> (n * bits[i] + carry[i]) % 2]

RECURSIVE Sum(_)
Sum(s) == IF s = <<>> THEN 0 ELSE s[1] + Sum(Tail(s))

---------------------------------------------------------------------------
(* pandas *)

\* Fault variant of DfLen: equal rows counted once.
DfLenDistinct(df) == Cardinality(Range(df.rows))

\* len(df)
DfLen(df) == Len(df.rows)

\* df[c] of a column the frame has: the column's values in row order.
Col(df, c) == [i \in 1..Len(df.rows) |-> df.rows[i][c]]

\* Fault variant of Mean: divides by the number of distinct values.
MeanDroppingDuplicates(s) ==
    IF Len(s) = 0 THEN NaN ELSE Quotient(Sum(s), Cardinality(Range(s)))

\* Fault variant of Mean: 0.0 over no values.
MeanOrZero(s) ==
    IF Len(s) = 0 THEN Quotient(0, 1) ELSE Quotient(Sum(s), Len(s))

\* Series.mean(): NaN over no values, else sum / count.
Mean(s) == IF Len(s) = 0 THEN NaN ELSE Quotient(Sum(s), Len(s))

\* Fault variant of Unique: drops a value only when it repeats its neighbour.
RECURSIVE UniqueKeepingRepeats(_)
UniqueKeepingRepeats(s) ==
    IF s = <<>> THEN <<>>
    ELSE LET u == UniqueKeepingRepeats(SubSeq(s, 1, Len(s) - 1))
             x == s[Len(s)]
         IN  IF u # <<>> /\ u[Len(u)] = x THEN u ELSE Append(u, x)

\* Series.unique().tolist(): the distinct values in order of first appearance.
RECURSIVE Unique(_)
Unique(s) ==
    IF s = <<>> THEN <<>>
    ELSE LET u == Unique(SubSeq(s, 1, Len(s) - 1))
             x == s[Len(s)]
         IN  IF x \in Range(u) THEN u ELSE Append(u, x)

\* The code points of the text values in use.
CodePoints(t) ==
    CASE t = "Sales" -> <<83, 97, 108, 101, 115>>
      [] t = "Eng" -> <<69, 110, 103>>
      [] t = "NYC" -> <<78, 89, 67>>
      [] t = "LA" -> <<76, 65>>

\* a < b on sequences of code points, as Python compares str.
RECURSIVE LexLess(_, _)
LexLess(a, b) ==
    IF b = <<>> THEN FALSE
    ELSE IF a = <<>> THEN TRUE
    ELSE IF a[1] # b[1] THEN a[1] < b[1]
    ELSE LexLess(Tail(a), Tail(b))

StrLess(a, b) == LexLess(CodePoints(a), CodePoints(b))

\* x put into the ascending sequence s.
RECURSIVE Insert(_, _)
Insert(x, s) ==
    IF s = <<>> THEN <<x>>
    ELSE IF StrLess(x, s[1]) THEN <<x>> \o s
    ELSE <<s[1]>> \o Insert(x, Tail(s))

RECURSIVE Sorted(_)
Sorted(s) == IF s = <<>> THEN <<>> ELSE Insert(s[1], Sorted(Tail(s)))

\* Fault variant of GroupKeys: groupby(by, sort=False).
GroupKeysUnsorted(df, by) == Unique(Col(df, by))

\* The group keys of df.groupby(by): the distinct keys, sorted (sort=True).
GroupKeys(df, by) == Sorted(Unique(Col(df, by)))

\* The values of column val in the rows whose column by holds k, in row order.
RECURSIVE GroupValues(_, _, _, _)
GroupValues(rows, by, k, val) ==
    IF rows = <<>> THEN <<>>
    ELSE LET rest == GroupValues(Tail(rows), by, k, val)
         IN  IF rows[1][by] = k THEN <<rows[1][val]>> \o rest ELSE rest

\* Fault variant of GroupByMean: every key gets the mean of the whole column.
GroupByMeanOverAllRows(df, by, val) ==
    LET keys == GroupKeys(df, by)
    IN  [i \in 1..Len(keys) |-> [key |-> keys[i], value |-> Mean(Col(df, val))]]

\* df.groupby(by)[val].mean().to_dict(): one item per group key, in key order.
GroupByMean(df, by, val) ==
    LET keys == GroupKeys(df, by)
    IN  [i \in 1..Len(keys) |->
            [key |-> keys[i],
             value |-> Mean(GroupValues(df.rows, by, keys[i], val))]]

---------------------------------------------------------------------------
(* analyze_employee_data *)

\* Fault variant of GetItemMissing: the entries built so far are returned.
GetItemMissingSkipped(df, c) == Return([total_employees |-> DfLen(df)])

\* df[c] of a column the frame lacks: pandas raises KeyError(c).
GetItemMissing(df, c) == Raise("KeyError", c)

\* float(df[c].mean())
ColumnMean(df, c) == Mean(Col(df, c))

\* The dictionary literal is evaluated entry by entry, top to bottom: the
\* first column looked up and absent ends the call.
analyze_employee_data(df) ==
    IF "age" \notin df.columns THEN GetItemMissing(df, "age")
    ELSE IF "salary" \notin df.columns THEN GetItemMissing(df, "salary")
    ELSE IF "department" \notin df.columns THEN GetItemMissing(df, "department")
    ELSE IF "city" \notin df.columns THEN GetItemMissing(df, "city")
    ELSE Return([total_employees |-> DfLen(df),
                 average_age |-> ColumnMean(df, "age"),
                 average_salary |-> ColumnMean(df, "salary"),
                 departments |-> Unique(Col(df, "department")),
                 cities |-> Unique(Col(df, "city")),
                 salary_by_dept |-> GroupByMean(df, "department", "salary"),
                 age_by_dept |-> GroupByMean(df, "department", "age")])

---------------------------------------------------------------------------
(* Format specifications *)

\* t + 0.bits rounded to an integer, ties to even: a fixed-point format
\* rounds the exact value of the double.
RoundHalfEven(t, bits) ==
    IF bits = <<>> \/ bits[1] = 0 THEN t
    ELSE IF \E i \in 2..Len(bits) : bits[i] = 1 THEN t + 1
    ELSE IF t % 2 = 0 THEN t ELSE t + 1

Pad3(n) ==
    IF n < 10 THEN "00" \o ToString(n)
    ELSE IF n < 100 THEN "0" \o ToString(n)
    ELSE ToString(n)

RECURSIVE Grouped(_)
Grouped(n) ==
    IF n < 1000 THEN ToString(n)
    ELSE Grouped(n \div 1000) \o "," \o Pad3(n % 1000)

\* format(x, ".1f")
FormatFixed1(x) ==
    IF x.nan THEN "nan"
    ELSE LET m == MulBits(x.frac, 10)
             t == RoundHalfEven(x.int * 10 + m[1], Tail(m))
         IN  ToString(t \div 10) \o "." \o ToString(t % 10)

\* format(x, ",.0f")
FormatGrouped0(x) ==
    IF x.nan THEN "nan" ELSE Grouped(RoundHalfEven(x.int, x.frac))

\* sep.join(s)
RECURSIVE Join(_, _)
Join(sep, s) ==
    IF s = <<>> THEN ""
    ELSE IF Len(s) = 1 THEN s[1]
    ELSE s[1] \o sep \o Join(sep, Tail(s))

---------------------------------------------------------------------------
(* generate_report *)

\* Fault variant of TotalEmployeesLine: the count is read off the frame.
TotalEmployeesLineFromFrame(df, results) ==
    "- Total Employees: " \o ToString(DfLen(df))

TotalEmployeesLine(df, results) ==
    "- Total Employees: " \o ToString(results.total_employees)

\* The template up to and including "Salary by Department:", line by line;
\* the string opens with a line break, so its first line is empty.
HeaderLines(df, results) ==
    <<"",
      "EMPLOYEE ANALYSIS REPORT",
      "========================",
      "",
      "Summary Statistics:",
      TotalEmployeesLine(df, results),
      "- Average Age: " \o FormatFixed1(results.average_age) \o " years",
      "- Average Salary: $" \o FormatGrouped0(results.average_salary),
      "",
      "Departments: " \o Join(", ", results.departments),
      "Cities: " \o Join(", ", results.cities),
      "",
      "Salary by Department:">>

SalaryLine(dept, salary) == "- " \o dept \o ": $" \o FormatGrouped0(salary)

AgeLine(dept, age) == "- " \o dept \o ": " \o FormatFixed1(age) \o " years"

\* d[k] of a dict that holds k.
ValueOf(items, k) == (CHOOSE i \in Range(items) : i.key = k).value

\* for dept, salary in results['salary_by_dept'].items()
SalaryLines(results) ==
    [i \in 1..Len(results.salary_by_dept) |->
        SalaryLine(results.salary_by_dept[i].key, results.salary_by_dept[i].value)]

\* Fault variant of AgeLines: loops over results['departments'].
AgeLinesByDepartmentsList(results) ==
    [i \in 1..Len(results.departments) |->
        AgeLine(results.departments[i],
                ValueOf(results.age_by_dept, results.departments[i]))]

\* for dept, age in results['age_by_dept'].items()
AgeLines(results) ==
    [i \in 1..Len(results.age_by_dept) |->
        AgeLine(results.age_by_dept[i].key, results.age_by_dept[i].value)]

ReportLines(df, results) ==
    HeaderLines(df, results) \o SalaryLines(results)
        \o <<"", "Age by Department:">> \o AgeLines(results)

\* Every line with its line break, concatenated.
RECURSIVE Text(_)
Text(lines) == IF lines = <<>> THEN "" ELSE lines[1] \o "\n" \o Text(Tail(lines))

\* The first key of keys that the dict lacks, "" when it has them all.
RECURSIVE FirstMissing(_, _)
FirstMissing(keys, results) ==
    IF keys = <<>> THEN ""
    ELSE IF keys[1] \notin DOMAIN results THEN keys[1]
    ELSE FirstMissing(Tail(keys), results)

\* The keys are read in the order of SummaryKeys: five in the template, then
\* one by each loop; the first one absent raises KeyError.
generate_report(df, results) ==
    LET k == FirstMissing(SummaryKeys, results)
    IN  IF k # "" THEN Raise("KeyError", k)
        ELSE Return(Text(ReportLines(df, results)))

---------------------------------------------------------------------------
(* The caller: one Dataset, analysed and reported any number of times *)

VARIABLES
    df,       \* the caller's Dataset
    results,  \* outcome of the latest analyze_employee_data(df)
    rdf,      \* the Dataset passed to the latest generate_report
    summary,  \* the Summary passed to the latest generate_report
    report    \* outcome of the latest generate_report(rdf, summary)

vars == <<df, results, rdf, summary, report>>

EmptyDict == [k \in {} |-> 0]

\* The dict without key k.
Without(d, k) == [j \in DOMAIN d \ {k} |-> d[j]]

Init ==
    /\ df \in Datasets
    /\ results = NoCall
    /\ rdf = df
    /\ summary = EmptyDict
    /\ report = NoCall

\* Fault variant of Analyze: the city column is popped off the frame.
AnalyzePoppingCity ==
    /\ results' = analyze_employee_data(df)
    /\ df' = IF "city" \in df.columns
             THEN [columns |-> df.columns \ {"city"},
                   rows |-> [i \in 1..Len(df.rows) |->
                               [c \in df.columns \ {"city"} |-> df.rows[i][c]]]]
             ELSE df
    /\ UNCHANGED <<rdf, summary, report>>

\* results = analyze_employee_data(df)
Analyze ==
    /\ results' = analyze_employee_data(df)
    /\ UNCHANGED <<df, rdf, summary, report>>

\* Frames a caller may hand to generate_report beside the analysed one.
ReportFrames ==
    {df, [df EXCEPT !.rows = <<>>],
     [df EXCEPT !.rows = SubSeq(df.rows, 1, Len(df.rows) - 1)]}

\* report = generate_report(d, results), with the Summary analysis returned.
GenerateReport ==
    /\ results.kind = "return"
    /\ \E d \in ReportFrames :
          /\ rdf' = d
          /\ summary' = results.value
          /\ report' = generate_report(d, results.value)
    /\ UNCHANGED <<df, results>>

\* Summaries lacking a key: the one analysis returned less one key, or an
\* empty dict when the caller holds none.
MalformedSummaries ==
    IF results.kind = "return"
    THEN {Without(results.value, k) : k \in Range(SummaryKeys)}
    ELSE {EmptyDict}

\* report = generate_report(df, s), s lacking a key.
GenerateReportMalformed ==
    /\ \E s \in MalformedSummaries :
          /\ rdf' = df
          /\ summary' = s
          /\ report' = generate_report(df, s)
    /\ UNCHANGED <<df, results>>

Next == Analyze \/ GenerateReport \/ GenerateReportMalformed

Spec == Init /\ [][Next]_vars

\* The analysis alone, of the longer frames.
WideInit ==
    /\ df \in WideDatasets
    /\ results = NoCall
    /\ rdf = df
    /\ summary = EmptyDict
    /\ report = NoCall

WideNext == Analyze

WideSpec == WideInit /\ [][WideNext]_vars

---------------------------------------------------------------------------
(* Vocabulary of the properties, stated on the rows themselves *)

Analysed == results.kind = "return"

Keys(items) == [i \in 1..Len(items) |-> items[i].key]

\* The positions of the rows whose department is d.
RowsOfDepartment(d) == {i \in 1..Len(df.rows) : df.rows[i].department = d}

\* The values occurring in column c.
Occurring(c) == {df.rows[i][c] : i \in 1..Len(df.rows)}

RECURSIVE SumAt(_, _)
SumAt(I, c) ==
    IF I = {} THEN 0
    ELSE LET i == CHOOSE j \in I : TRUE IN df.rows[i][c] + SumAt(I \ {i}, c)

\* The number bits spell in binary.
BitsValue(bits) ==
    LET value[i \in 0..Len(bits)] ==
            IF i = 0 THEN 0 ELSE 2 * value[i - 1] + bits[i]
    IN  value[Len(bits)]

\* The number bits spell in binary, or cap when that is less: only the
\* last BitLen(cap) bits can stay below cap.
CappedValue(bits, cap) ==
    LET high == IF Len(bits) > BitLen(cap) THEN Len(bits) - BitLen(cap) ELSE 0
        low == BitsValue(SubSeq(bits, high + 1, Len(bits)))
    IN  IF \E i \in 1..high : bits[i] = 1 THEN cap
        ELSE IF low > cap THEN cap ELSE low

\* x is a double within half a unit in its last place of s / n: with k the
\* fraction bits of x's binade, 2^(k+1) * |n * x - s| <= n.  The product
\* n * x is taken exactly.
IsNearestDouble(x, s, n) ==
    /\ ~x.nan
    /\ LET k == FracPositions(x.int, x.frac)
           p == MulBits(x.frac, n)
           whole == x.int * n + p[1]
           padded == Tail(p) \o [i \in 1..(k + 2 - Len(p)) |-> 0]
           flipped == [i \in 1..Len(padded) |-> 1 - padded[i]]
       IN  /\ Len(x.frac) <= k
           /\ \/ whole = s /\ CappedValue(padded, n + 1) <= n
              \/ whole = s - 1 /\ CappedValue(flipped, n + 1) + 1 <= n

\* x is the sum of column c over the rows at I, divided by their number, as
\* a double.
IsMeanAt(x, I, c) ==
    /\ I # {}
    /\ IsNearestDouble(x, SumAt(I, c), Cardinality(I))

\* The position at which v first occurs in column c.
FirstAt(c, v) ==
    CHOOSE i \in 1..Len(df.rows) :
        df.rows[i][c] = v /\ \A j \in 1..(i - 1) : df.rows[j][c] # v

NoRepeats(u) == \A i, j \in 1..Len(u) : u[i] = u[j] => i = j

Ascending(u) == \A i, j \in 1..Len(u) : i < j => StrLess(u[i], u[j])

\* u lists the values of column c once each, in order of first appearance.
IsFirstSeenListOf(u, c) ==
    /\ Range(u) = Occurring(c)
    /\ NoRepeats(u)
    /\ \A i, j \in 1..Len(u) : i < j => FirstAt(c, u[i]) < FirstAt(c, u[j])

\* The positions at which line occurs in lines.
At(lines, line) == {i \in 1..Len(lines) : lines[i] = line}

---------------------------------------------------------------------------
(* Properties *)

\* C1: after a successful analysis, salary_by_dept and age_by_dept have
\* exactly the departments of the rows as keys (each once), and each value
\* is the sum of salary (resp. age) over exactly the rows of that department
\* divided by their number.
C1_GroupMeans ==
    Analysed =>
        LET s == results.value
        IN  /\ Range(Keys(s.salary_by_dept)) = Range(s.departments)
            /\ Range(Keys(s.age_by_dept)) = Range(s.departments)
            /\ Range(s.departments) = Occurring("department")
            /\ NoRepeats(Keys(s.salary_by_dept))
            /\ NoRepeats(Keys(s.age_by_dept))
            /\ \A i \in 1..Len(s.salary_by_dept) :
                  IsMeanAt(s.salary_by_dept[i].value,
                           RowsOfDepartment(s.salary_by_dept[i].key), "salary")
            /\ \A i \in 1..Len(s.age_by_dept) :
                  IsMeanAt(s.age_by_dept[i].value,
                           RowsOfDepartment(s.age_by_dept[i].key), "age")

\* Two departments, one of them with two rows of different salary and age.
C1_Witness ==
    /\ Analysed
    /\ Cardinality(Occurring("department")) = 2
    /\ \E i, j \in 1..Len(df.rows) :
          /\ df.rows[i].department = df.rows[j].department
          /\ df.rows[i].salary # df.rows[j].salary
          /\ df.rows[i].age # df.rows[j].age

\* C2 as stated: salary_by_dept and age_by_dept iterate in the order in which
\* the departments first appear in the rows, so the per-department lines of
\* the report follow the order of the "Departments:" line.
C2_FirstSeenOrder ==
    Analysed =>
        /\ Keys(results.value.salary_by_dept) = results.value.departments
        /\ Keys(results.value.age_by_dept) = results.value.departments

\* C2 amended: both mappings iterate in ascending order of department name,
\* whatever the order of first appearance; the per-department lines of the
\* report follow that ascending order, and it is the order of the
\* "Departments:" line exactly when departments first appear ascending.
C2_AscendingOrder ==
    Analysed =>
        LET s == results.value
            ks == Keys(s.salary_by_dept)
            lines == ReportLines(df, s)
            h == Len(HeaderLines(df, s))
        IN  /\ Keys(s.age_by_dept) = ks
            /\ Ascending(ks)
            /\ Range(ks) = Occurring("department")
            /\ (ks = s.departments) <=> Ascending(s.departments)
            /\ \A i \in 1..Len(ks) :
                  /\ lines[h + i]
                       = SalaryLine(ks[i], ValueOf(s.salary_by_dept, ks[i]))
                  /\ lines[h + Len(ks) + 2 + i]
                       = AgeLine(ks[i], ValueOf(s.age_by_dept, ks[i]))

\* Departments first appear in descending order, and a report was rendered.
C2_Witness ==
    /\ Analysed
    /\ report.kind = "return"
    /\ rdf = df
    /\ Len(results.value.departments) = 2
    /\ ~Ascending(results.value.departments)

\* C3: departments (resp. cities) lists every value of the department (resp.
\* city) column exactly once, nothing else, in order of first appearance.
C3_DistinctFirstSeen ==
    Analysed =>
        /\ IsFirstSeenListOf(results.value.departments, "department")
        /\ IsFirstSeenListOf(results.value.cities, "city")

\* A department recurs after another one came between.
C3_Witness ==
    /\ Analysed
    /\ Len(df.rows) >= 3
    /\ df.rows[1].department = df.rows[3].department
    /\ df.rows[1].department # df.rows[2].department
    /\ df.rows[1].city # df.rows[2].city

\* C4: total_employees is the number of rows, duplicates counted each.
C4_TotalIsRowCount ==
    Analysed => results.value.total_employees = Cardinality(DOMAIN df.rows)

\* Two equal rows.
C4_Witness ==
    /\ Analysed
    /\ Len(df.rows) >= 2
    /\ df.rows[1] = df.rows[2]

\* x * n in double arithmetic, n a small non-negative integer.
FloatTimes(x, n) ==
    IF x.nan THEN NaN
    ELSE LET m == MulBits(x.frac, n)
         IN  RoundToDouble(x.int * n + m[1], Tail(m), FALSE)

\* The double holding the integer n.
Exactly(n) == [nan |-> FALSE, int |-> n, frac |-> <<>>]

\* C5 as stated: over a non-empty Dataset, average_age times the row count
\* is the sum of the age column, and average_salary times the row count the
\* sum of the salary column (the product taken as the program would take
\* it, in double arithmetic).
C5_ProductIsSum ==
    (Analysed /\ Len(df.rows) > 0) =>
        /\ FloatTimes(results.value.average_age, Len(df.rows))
             = Exactly(SumAt(DOMAIN df.rows, "age"))
        /\ FloatTimes(results.value.average_salary, Len(df.rows))
             = Exactly(SumAt(DOMAIN df.rows, "salary"))

\* C5 amended: over a non-empty Dataset, average_age is the double nearest
\* to the sum of the age column over all rows divided by the row count, and
\* average_salary the double nearest to the sum of the salary column divided
\* by the row count; the product with the row count is the column sum
\* whenever the row count is a power of two.
C5_ColumnMeans ==
    (Analysed /\ Len(df.rows) > 0) =>
        /\ IsMeanAt(results.value.average_age, DOMAIN df.rows, "age")
        /\ IsMeanAt(results.value.average_salary, DOMAIN df.rows, "salary")
        /\ Len(df.rows) \in {1, 2, 4, 8} =>
              /\ FloatTimes(results.value.average_age, Len(df.rows))
                   = Exactly(SumAt(DOMAIN df.rows, "age"))
              /\ FloatTimes(results.value.average_salary, Len(df.rows))
                   = Exactly(SumAt(DOMAIN df.rows, "salary"))

\* Seven rows of two departments whose ages sum to 225.
C5_Witness ==
    /\ Analysed
    /\ Len(df.rows) = 7
    /\ SumAt(DOMAIN df.rows, "age") = 225
    /\ Cardinality(Occurring("department")) = 2

\* C6 as stated: analysing a Dataset with the four columns and no rows ends
\* in an error, and no Summary is returned.
C6_EmptyRaises ==
    (results.kind # "none" /\ df.columns = Columns /\ Len(df.rows) = 0)
        => results.kind = "raise"

\* C6 amended: analysing a Dataset with the four columns and no rows raises
\* nothing: it returns a Summary with total_employees 0, NaN for both
\* averages, and empty departments, cities, salary_by_dept and age_by_dept.
C6_EmptyReturnsNaN ==
    (results.kind # "none" /\ df.columns = Columns /\ Len(df.rows) = 0) =>
        /\ results.kind = "return"
        /\ results.value.total_employees = 0
        /\ results.value.average_age.nan
        /\ results.value.average_salary.nan
        /\ results.value.departments = <<>>
        /\ results.value.cities = <<>>
        /\ results.value.salary_by_dept = <<>>
        /\ results.value.age_by_dept = <<>>

\* The empty Dataset was analysed.
C6_Witness ==
    /\ results.kind # "none"
    /\ df.columns = Columns
    /\ Len(df.rows) = 0

\* C7: analysing a Dataset that lacks a column raises a KeyError for a
\* column it lacks and returns nothing, whatever the rows hold; rendering a
\* Summary that lacks a key raises a KeyError for a key it lacks and returns
\* no string.
C7_MissingRaises ==
    /\ (results.kind # "none" /\ df.columns # Columns) =>
          /\ results.kind = "raise"
          /\ results.value.exc = "KeyError"
          /\ results.value.key \in Columns \ df.columns
    /\ (report.kind # "none"
          /\ \E k \in Range(SummaryKeys) : k \notin DOMAIN summary) =>
          /\ report.kind = "raise"
          /\ report.value.exc = "KeyError"
          /\ report.value.key \in Range(SummaryKeys) \ DOMAIN summary

\* A frame without its city column (rows present) was analysed, and a
\* Summary lacking keys was rendered.
C7_Witness ==
    /\ results.kind = "raise"
    /\ "city" \notin df.columns
    /\ Len(df.rows) > 0
    /\ report.kind = "raise"

\* C8: no call changes the Dataset or the Summary the caller holds; a
\* repeated analysis returns what the earlier one returned (or raises what
\* it raised), and so does a repeated rendering of the same arguments.
C8_InputsUnchanged ==
    [][/\ df' = df
       /\ (results.kind # "none" => SameOutcome(results', results))
       /\ (report.kind # "none" /\ report'.kind # "none"
             /\ rdf' = rdf /\ DOMAIN summary' = DOMAIN summary
             /\ summary' = summary
           => SameOutcome(report', report))]_vars

\* Both operations have been called, one of them on a Summary it rejects.
C8_Witness ==
    /\ Analysed
    /\ Len(df.rows) > 0
    /\ report.kind = "raise"

\* Frames that have nothing to do with the Summary being rendered.
UnrelatedFrames ==
    {[columns |-> cs, rows |-> rs] :
        cs \in {Columns, Columns \ {"age"}},
        rs \in {<<>>, <<[age |-> 25, salary |-> 40000,
                         department |-> "Eng", city |-> "LA"]>>}}

\* C9: what generate_report returned for the Summary is what it returns for
\* that Summary with any other Dataset.
C9_ReportIgnoresDataset ==
    report.kind # "none" =>
        \A d \in ReportFrames \cup UnrelatedFrames :
            SameOutcome(generate_report(d, summary), report)

\* A report rendered with a Dataset of another length than the analysed one.
C9_Witness ==
    /\ report.kind = "return"
    /\ Len(rdf.rows) # Len(df.rows)
    /\ Len(df.rows) >= 2

\* C10: in the report of a Dataset's own analysis, the salary section and
\* the age section each hold exactly one line per department of the rows,
\* the salary section comes first, and both list the departments in the same
\* order.
C10_SectionsPerDepartment ==
    (Analysed /\ report.kind = "return" /\ rdf = df) =>
        LET s == results.value
            lines == ReportLines(df, s)
            D == Occurring("department")
            S == At(lines, "Salary by Department:")
            A == At(lines, "Age by Department:")
        IN  /\ report.value = Text(lines)
            /\ Cardinality(S) = 1
            /\ Cardinality(A) = 1
            /\ LET ss == CHOOSE i \in S : TRUE
                   aa == CHOOSE i \in A : TRUE
                   SalaryAt(d) ==
                       At(lines, SalaryLine(d, ValueOf(s.salary_by_dept, d)))
                   AgeAt(d) ==
                       At(lines, AgeLine(d, ValueOf(s.age_by_dept, d)))
               IN  /\ ss < aa
                   /\ aa - ss - 2 = Cardinality(D)
                   /\ Len(lines) - aa = Cardinality(D)
                   /\ lines[aa - 1] = ""
                   /\ \A d \in D :
                         /\ Cardinality(SalaryAt(d)) = 1
                         /\ Cardinality(AgeAt(d)) = 1
                         /\ \E n \in 1..Cardinality(D) :
                               SalaryAt(d) = {ss + n} /\ AgeAt(d) = {aa + n}

\* The report of a three-row Dataset with two departments, first seen in
\* descending order, rendered from its own analysis.
C10_Witness ==
    /\ Analysed
    /\ report.kind = "return"
    /\ rdf = df
    /\ DOMAIN summary = Range(SummaryKeys)
    /\ Len(df.rows) = 3
    /\ results.value.departments = <<"Sales", "Eng">>

====
